---- MODULE Spec2Model ----
(***************************************************************************)
(* Model of src/server.py: the automation run engine (run_automation), the *)
(* per-record submission protocol (process_single_item), the control       *)
(* surface (start_automation, stop_automation), the log buffer (add_log)   *)
(* and the observer hub (broadcast, websocket_endpoint).                   *)
(*                                                                         *)
(* Scheduling is asyncio's: one task runs at a time and keeps the          *)
(* processor until it reaches an await that really suspends.  `cur` holds  *)
(* the task that has not suspended yet; every other task waits.  A task    *)
(* made by asyncio.create_task runs its first step after the callbacks     *)
(* that were ready before it, and before any task is resumed a second      *)
(* time (`ahead`).                                                         *)
(***************************************************************************)
EXTENDS Integers, Sequences, FiniteSets, TLC

\* ------------------------------------------------------------------ bounds
MaxRuns == 2
MaxStops == 1
MaxRejects == 1
MaxObs == 1
MaxItems == 2
MaxAppends == 203
MaxPassObs == 3
MaxReads == 1

\* ------------------------------------------------------- program constants
LOG_CAP == 200
DEFAULT_TIMEOUT == 10
DEFAULT_DELAY == 3
DEFAULT_MAX_RETRY == 3
LAST_STEP == 13
StopTask == 0

RunIds == 1..MaxRuns
Tasks == RunIds \cup {StopTask}
Observers == 1..MaxPassObs

\* ---------------------------------------------------------------- strings
\* A message is a sequence of tokens; `"불일치" in msg` is token membership.
Bulilchi == "bulilchi"

Contains(msg, tok) == \E k \in 1..Len(msg) : msg[k] = tok

\* int(): the literals the sheets of this model hold; anything else raises
\* ValueError.
IntLiterals == {"-1", "0", "1", "2", "3", "10"}

IntValue(s) ==
    CASE s = "-1" -> -1
      [] s = "0" -> 0
      [] s = "1" -> 1
      [] s = "2" -> 2
      [] s = "3" -> 3
      [] s = "10" -> 10

\* int(config.get(key, default)): [ok, val]; ok = FALSE is ValueError.
ConfigInt(config, key, default) ==
    IF key \notin DOMAIN config THEN [ok |-> TRUE, val |-> default]
    ELSE IF config[key] \in IntLiterals
         THEN [ok |-> TRUE, val |-> IntValue(config[key])]
         ELSE [ok |-> FALSE, val |-> 0]

ConfigGet(config, key, default) ==
    IF key \in DOMAIN config THEN config[key] ELSE default

\* str.strip() on the cell values of this model: " " is the blank cell.
Strip(s) == IF s = " " THEN "" ELSE s

Min(a, b) == IF a < b THEN a ELSE b
Max(a, b) == IF a > b THEN a ELSE b

\* Python's s[a:b] with its treatment of negative and oversized indices.
PySlice(s, a, b) ==
    LET n == Len(s)
        lo == IF a < 0 THEN Max(n + a, 0) ELSE Min(a, n)
        hi == IF b < 0 THEN Max(n + b, 0) ELSE Min(b, n)
    IN  IF lo < hi THEN SubSeq(s, lo + 1, hi) ELSE <<>>

\* ------------------------------------------------------------- sheet data
\* A raw data row of the sheet (columns C, D, E); rows start at row 4.
FullRow == [store |-> "S", biz |-> "B", order |-> "O"]
NoBizRow == [store |-> "S", biz |-> "", order |-> "O"]
BlankStoreRow == [store |-> " ", biz |-> "B", order |-> "O"]

RECURSIVE ReadRows(_, _)
ReadRows(rows, k) ==
    IF k > Len(rows) \/ rows[k].store = "" THEN <<>>
    ELSE <<[row |-> k + 3,
            store_id |-> Strip(rows[k].store),
            business_number |-> Strip(rows[k].biz),
            order_number |-> Strip(rows[k].order)]>> \o ReadRows(rows, k + 1)

\* get_sheet_data: the items of the data sheet, up to the first row whose
\* C column is empty, and the settings.
get_sheet_data(sheet) == [items |-> ReadRows(sheet.rows, 1), config |-> sheet.config]

\* settings sheets
Config2 == [max_retry |-> "2"]
Config1 == [max_retry |-> "1"]
ConfigZero == [max_retry |-> "0"]
ConfigNegative == [max_retry |-> "-1"]
ConfigBadTimeout == [max_retry |-> "2", timeout |-> "abc"]
ConfigBadRetry == [max_retry |-> "abc"]
ConfigCategory == [max_retry |-> "2", category |-> <<"order", Bulilchi>>]

\* ------------------------------------------------------------- the state
VARIABLES
    automation_state,   \* the global dict of src/server.py:47
    connected_clients,  \* the list of src/server.py:58, observer ids
    obs,                \* each observer's connection
    run,                \* the run_automation tasks, in creation order
    bc,                 \* each task's broadcast call in progress
    cur,                \* the task running now: {} or {t}
    ahead,              \* ahead[r]: tasks that may still step before r starts
    world,              \* what the environment offers in this behaviour
    nstops,             \* stop requests handled
    nrejects,           \* start requests rejected
    log_seq,            \* entries appended since the log was last reset
    hub,                \* what the broadcast passes have done so far
    nreads              \* status queries and sheet connects answered

vars == <<automation_state, connected_clients, obs, run, bc, cur, ahead,
          world, nstops, nrejects, log_seq, hub, nreads>>

\* a broadcast call: its iterator position idx, the observer ws whose send
\* it awaits, its `disconnected` list and where an exception out of it goes;
\* and, for the properties, the observers listed when the pass began
\* (start), those it has sent to (tried), the passes that were in progress
\* when it began (older) and the observers a later pass reached first (late)
IdleBc ==
    [active |-> FALSE, ws |-> 0, idx |-> 0, disc |-> <<>>, handler |-> "none",
     start |-> {}, tried |-> {}, older |-> {}, late |-> {}]

\* no pass has raised, skipped an observer or delivered out of order, and no
\* send is in flight
IdleHub == [raised |-> {}, skipped |-> {}, disorder |-> {}, order |-> <<>>]

NoSurface == [fail_at |-> 0, how |-> "none", marker |-> FALSE, consent |-> TRUE]

FreshTask ==
    [pc |-> "none", start_row |-> 0, end_row |-> 0, items |-> <<>>,
     config |-> <<>>, max_retry |-> 0, delay |-> 0, i |-> 0,
     attempt |-> 0, success |-> FALSE, result_msg |-> <<>>,
     step |-> 0, surface |-> NoSurface, raising |-> FALSE,
     \* bookkeeping of what the task has done, read by the properties
     begun |-> 0, classified |-> 0, tries |-> 0, cls |-> "none",
     mm |-> FALSE, other_fails |-> 0, last_reason |-> <<>>,
     wb |-> "none", wb_status |-> <<>>, stop_at |-> 0,
     cleared |-> FALSE, completes |-> 0, tally |-> <<0, 0, 0>>,
     final |-> <<0, 0, 0>>, cause |-> "none", done |-> <<>>,
     \* the events of the current record and of the one before it
     progress |-> 0, states |-> 0, paced |-> 0,
     prev_cls |-> "none", prev_states |-> 0, prev_paced |-> 0,
     \* the stop requests handled before the run's reset, and whether the
     \* loop head found the stop flag set
     stops_before |-> 0, halted |-> FALSE,
     \* whether every earlier task had ended when this one was created
     alone |-> TRUE]

InitialState ==
    [is_running |-> FALSE, current_item |-> 0, total_items |-> 0,
     success |-> 0, fail |-> 0, skip |-> 0, logs |-> <<>>,
     should_stop |-> FALSE]

\* ------------------------------------------------------------ the log buffer
\* automation_state["logs"].append(entry), then keep the last LOG_CAP.
\* `seq` numbers the entry among those appended since the last reset.
\* a buffer that evicts the newest entries instead
KeepOldest(logs) ==
    IF Len(logs) > LOG_CAP THEN SubSeq(logs, 1, LOG_CAP) ELSE logs

KeepRecent(logs) ==
    IF Len(logs) > LOG_CAP
    THEN SubSeq(logs, Len(logs) - LOG_CAP + 1, Len(logs))
    ELSE logs

add_log(st, n, message, level) ==
    [st EXCEPT !.logs = KeepRecent(Append(st.logs,
        [seq |-> n, message |-> message, level |-> level]))]

\* ---------------------------------------------------------- the observer hub
InSeq(s, x) == \E k \in 1..Len(s) : s[k] = x

\* list.remove(x): drops the first occurrence.
RemoveFirst(s, x) ==
    LET p == CHOOSE k \in 1..Len(s) : s[k] = x /\ \A j \in 1..(k - 1) : s[j] # x
    IN  SubSeq(s, 1, p - 1) \o SubSeq(s, p + 1, Len(s))

\* broadcast's second loop: connected_clients.remove(ws) for each ws that
\* failed; remove raises ValueError when ws is no longer in the list.
RECURSIVE RemoveAll(_, _)
RemoveAll(clients, disc) ==
    IF disc = <<>> THEN [raised |-> FALSE, clients |-> clients]
    ELSE IF ~InSeq(clients, Head(disc)) THEN [raised |-> TRUE, clients |-> clients]
    ELSE RemoveAll(RemoveFirst(clients, Head(disc)), Tail(disc))

\* broadcast from its iterator position idx: the next send, or the end of
\* the first loop and the removals.
Advance(clients, idx, disc) ==
    IF idx < Len(clients)
    THEN [kind |-> "send", ws |-> clients[idx + 1], idx |-> idx + 1,
          clients |-> clients]
    ELSE LET r == RemoveAll(clients, disc)
         IN  [kind |-> IF r.raised THEN "raise" ELSE "done", ws |-> 0,
              idx |-> idx, clients |-> r.clients]

Elems(s) == {s[k] : k \in 1..Len(s)}

\* the pass of task t as it begins with its first send (a = Advance(..))
BeginPass(t, a, h) ==
    [active |-> TRUE, ws |-> a.ws, idx |-> a.idx, disc |-> <<>>, handler |-> h,
     start |-> Elems(connected_clients), tried |-> {a.ws},
     older |-> {q \in DOMAIN bc : q # t /\ bc[q].active}, late |-> {}]

\* pass t begins a send to observer o: every older pass that has not sent
\* to o yet is now late for o
NoteSend(b, t, o) ==
    [q \in DOMAIN b |->
        IF q # t /\ b[q].active /\ q \in b[t].older /\ o \notin b[q].tried
        THEN [b[q] EXCEPT !.late = @ \cup {o}]
        ELSE b[q]]

\* pass t is over
EndPass(b, t) ==
    [q \in DOMAIN b |->
        IF q = t THEN IdleBc ELSE [b[q] EXCEPT !.older = @ \ {t}]]

\* the observers listed from the beginning to the end of pass t, still
\* connected, that the pass never sent to
Skipped(t) ==
    {o \in bc[t].start :
        InSeq(connected_clients, o) /\ o \notin bc[t].tried /\ obs[o] = "open"}

\* sends on one connection return in the order they were begun
SendReturns(t) ==
    \A k \in 1..Len(hub.order) :
        hub.order[k] = t =>
            \A j \in 1..(k - 1) : bc[hub.order[j]].ws # bc[t].ws

\* ----------------------------------------------------------------- scheduling
Unstarted == {r \in RunIds : run[r].pc = "created"}

Started ==
    {r \in RunIds : run[r].pc \notin {"none", "created", "done", "dead"}}
    \cup {t \in {StopTask} : bc[t].active}

\* a suspended task may be resumed
MayResume(t) ==
    /\ cur \subseteq {t}
    /\ cur = {} => \A r \in Unstarted : t \in ahead[r]

\* a created task may run its first step
MayStart(r) ==
    /\ cur = {}
    /\ run[r].pc = "created"
    /\ \A q \in Unstarted : q >= r

Stepped(t) == [r \in RunIds |-> ahead[r] \ {t}]

At(r, pc) == run[r].pc = pc /\ ~bc[r].active /\ MayResume(r)

Counters(st) == <<st.success, st.fail, st.skip>>

Ended(pc) == pc \in {"done", "dead"}

\* The end of a step of run task r: the new Run State st, the task nt with
\* its pc at the continuation, and how the step ends: "bcast" (an await of
\* broadcast, which suspends at its first send; h is where an exception
\* out of it goes), "suspend" (any other await) or "continue".
Go(r, st, nt, how, h, nlog) ==
    LET a == Advance(connected_clients, 0, <<>>)
        sends == how = "bcast" /\ a.kind = "send"
        nt2 == IF Ended(nt.pc) /\ ~sends
               THEN [nt EXCEPT !.final = Counters(st)] ELSE nt
    IN  /\ automation_state' = st
        /\ run' = [run EXCEPT ![r] = nt2]
        /\ bc' = IF sends
                  THEN NoteSend([bc EXCEPT ![r] = BeginPass(r, a, h)], r, a.ws)
                  ELSE bc
        /\ hub' = IF sends THEN [hub EXCEPT !.order = Append(@, r)] ELSE hub
        /\ cur' = IF sends \/ how = "suspend" \/ Ended(nt.pc) THEN {} ELSE {r}
        /\ ahead' = Stepped(r)
        /\ log_seq' = nlog
        /\ UNCHANGED <<connected_clients, obs, world, nstops, nrejects, nreads>>

\* where an exception raised by broadcast takes run task t
Raise(t, h) ==
    CASE h \in {"fatal", "fatal_pw"} -> [t EXCEPT !.pc = "fatal", !.cause = "broadcast"]
      [] h = "finally" -> [t EXCEPT !.pc = "finally", !.raising = TRUE]
      [] h = "p_error" -> [t EXCEPT !.pc = "p_error"]
      [] OTHER -> [t EXCEPT !.pc = "dead", !.final = Counters(automation_state)]

\* broadcast, resumed after `await ws.send_text(msg)`: the send to a live
\* observer succeeded, any other raised and ws joins `disconnected`.
BcastResume(t) ==
    /\ bc[t].active
    /\ MayResume(t)
    /\ SendReturns(t)
    /\ LET ws == bc[t].ws
           disc == IF obs[ws] = "open" THEN bc[t].disc ELSE Append(bc[t].disc, ws)
           a == Advance(connected_clients, bc[t].idx, disc)
           order == RemoveFirst(hub.order, t)
       IN  /\ connected_clients' = a.clients
           /\ IF a.kind = "send"
              THEN /\ bc' = NoteSend([bc EXCEPT ![t] =
                                        [@ EXCEPT !.ws = a.ws, !.idx = a.idx,
                                                  !.disc = disc,
                                                  !.tried = @ \cup {a.ws}]],
                                     t, a.ws)
                   /\ hub' = [hub EXCEPT !.order = Append(order, t),
                                  !.disorder = IF a.ws \in bc[t].late
                                               THEN @ \cup {a.ws} ELSE @]
                   /\ cur' = {}
                   /\ run' = run
              ELSE /\ bc' = EndPass(bc, t)
                   /\ hub' = [hub EXCEPT !.order = order,
                                  !.skipped = @ \cup Skipped(t),
                                  !.raised = IF a.kind = "raise"
                                             THEN @ \cup {t} ELSE @]
                   /\ IF t = StopTask
                      THEN cur' = {} /\ run' = run
                      ELSE IF a.kind = "done"
                      THEN /\ cur' = IF Ended(run[t].pc) THEN {} ELSE {t}
                           /\ run' = [run EXCEPT ![t] =
                                  IF Ended(run[t].pc)
                                  THEN [@ EXCEPT !.final = Counters(automation_state)]
                                  ELSE @]
                      ELSE /\ cur' = IF bc[t].handler \in {"dead", "fatal_pw"}
                                    THEN {} ELSE {t}
                           /\ run' = [run EXCEPT ![t] = Raise(@, bc[t].handler)]
    /\ ahead' = Stepped(t)
    /\ UNCHANGED <<automation_state, obs, world, nstops, nrejects, nreads, log_seq>>

\* ------------------------------------------------------- the control surface
FreeSlot(r) == run[r].pc = "none" /\ \A q \in RunIds : q < r => run[q].pc # "none"

\* a start handler that never answers 409
StartConflictNever(st) == FALSE

\* start_automation's test of the running flag (409 when it holds)
StartConflict(st) == st.is_running

\* POST /api/automation/start: 409 while running, else create_task.
StartAutomation ==
    /\ cur = {}
    /\ IF StartConflict(automation_state)
       THEN /\ nrejects < world.rejects
            /\ nrejects' = nrejects + 1
            /\ UNCHANGED <<automation_state, connected_clients, obs, run, bc,
                           cur, ahead, world, nstops, log_seq, hub, nreads>>
       ELSE \E r \in RunIds, req \in world.requests :
            /\ FreeSlot(r)
            /\ r <= world.runs
            /\ run' = [run EXCEPT ![r] = [FreshTask EXCEPT !.pc = "created",
                           !.start_row = req[1], !.end_row = req[2],
                           !.alone = \A q \in RunIds :
                                        run[q].pc \in {"none", "done", "dead"}]]
            /\ ahead' = [ahead EXCEPT ![r] = Started]
            /\ UNCHANGED <<automation_state, connected_clients, obs, bc, cur,
                           world, nstops, nrejects, nreads, log_seq, hub>>

InRecord(pc) ==
    pc \in {"rowlog", "infolog", "check", "skip", "attempt", "sleep_retry",
            "process", "p_act", "p_log", "p_error", "fail_log", "after_fail",
            "classify", "write",
            "state2", "pace", "sleep_pace"}

MsgStopRequested == <<"stop", "requested">>

\* POST /api/automation/stop: sets the flag, logs, broadcasts the entry.
StopAutomation ==
    /\ cur = {}
    /\ ~bc[StopTask].active
    /\ nstops < world.stops
    /\ LET st == add_log([automation_state EXCEPT !.should_stop = TRUE],
                         log_seq + 1, MsgStopRequested, "warn")
           a == Advance(connected_clients, 0, <<>>)
       IN  /\ automation_state' = st
           /\ bc' = IF a.kind = "send"
                     THEN NoteSend([bc EXCEPT ![StopTask] =
                                       BeginPass(StopTask, a, "dead")],
                                   StopTask, a.ws)
                     ELSE bc
           /\ hub' = IF a.kind = "send"
                      THEN [hub EXCEPT !.order = Append(@, StopTask)] ELSE hub
    /\ run' = [r \in RunIds |->
                 IF InRecord(run[r].pc) /\ run[r].stop_at = 0
                 THEN [run[r] EXCEPT !.stop_at = run[r].begun]
                 ELSE run[r]]
    /\ nstops' = nstops + 1
    /\ log_seq' = log_seq + 1
    /\ UNCHANGED <<connected_clients, obs, cur, ahead, world, nrejects, nreads>>

\* GET /api/status: answers with the Run State.
GetStatus ==
    /\ cur = {}
    /\ nreads.status < world.reads
    /\ nreads' = [nreads EXCEPT !.status = @ + 1]
    /\ UNCHANGED <<automation_state, connected_clients, obs, run, bc, cur,
                   ahead, world, nstops, nrejects, log_seq, hub>>

\* POST /api/sheets/connect: reads the sheet and answers with its records
\* and settings, or with HTTP 400 when the read raises.
ConnectSheet ==
    /\ cur = {}
    /\ nreads.connect < world.reads
    /\ nreads' = [nreads EXCEPT !.connect = @ + 1]
    /\ UNCHANGED <<automation_state, connected_clients, obs, run, bc, cur,
                   ahead, world, nstops, nrejects, log_seq, hub>>

\* a subscription that also appends to the log buffer
WsConnectLogged(o) ==
    /\ cur = {}
    /\ o <= world.observers
    /\ obs[o] = "none"
    /\ obs' = [obs EXCEPT ![o] = "open"]
    /\ connected_clients' = Append(connected_clients, o)
    /\ automation_state' = add_log(automation_state, log_seq + 1,
                                   <<"observer">>, "info")
    /\ log_seq' = log_seq + 1
    /\ UNCHANGED <<run, bc, cur, ahead, world, nstops, nrejects, nreads, hub>>

\* websocket_endpoint: accept, append to connected_clients.
WsConnect(o) ==
    /\ cur = {}
    /\ o <= world.observers
    /\ obs[o] = "none"
    /\ obs' = [obs EXCEPT ![o] = "open"]
    /\ connected_clients' = Append(connected_clients, o)
    /\ UNCHANGED <<automation_state, run, bc, cur, ahead, world, nstops,
                   nrejects, nreads, log_seq, hub>>

\* the observer's connection is lost
ClientClose(o) ==
    /\ cur = {}
    /\ obs[o] = "open"
    /\ obs' = [obs EXCEPT ![o] = "closed"]
    /\ UNCHANGED <<automation_state, connected_clients, run, bc, cur, ahead,
                   world, nstops, nrejects, nreads, log_seq, hub>>

\* websocket_endpoint, receive_text raises WebSocketDisconnect: remove the
\* observer if it is still listed.
WsDisconnect(o) ==
    /\ cur = {}
    /\ obs[o] = "closed"
    /\ obs' = [obs EXCEPT ![o] = "gone"]
    /\ connected_clients' = IF InSeq(connected_clients, o)
                            THEN RemoveFirst(connected_clients, o)
                            ELSE connected_clients
    /\ UNCHANGED <<automation_state, run, bc, cur, ahead, world, nstops,
                   nrejects, nreads, log_seq, hub>>

\* ------------------------------------------- the record submission protocol
MsgMismatch == <<"store-biz", Bulilchi>>
MsgSubmitted == <<"submitted">>
MsgTimeout == <<"timeout">>
MsgError(text) == <<"error">> \o text
MsgStep(k) == <<"step", ToString(k)>>

\* a protocol that fails when the consent button of step 13 cannot be clicked
StepFailsOnConsent(s, k) ==
    \/ s.fail_at = k /\ ~(k = LAST_STEP /\ s.marker)
    \/ k = LAST_STEP /\ ~s.consent

\* the remote surface refuses the mandatory action of step k; at step 13 the
\* "submission complete" marker stands in for the final action, and the
\* result of the consent click (line 312) is not looked at
StepFails(s, k) == s.fail_at = k /\ ~(k = LAST_STEP /\ s.marker)

\* the reason process_single_item returns when step k fails
FailReason(s, k, config) ==
    CASE k = 1 -> IF s.how = "timeout" THEN MsgTimeout ELSE MsgError(<<"goto">>)
      [] k = 9 -> IF s.marker THEN MsgMismatch ELSE <<"confirm", "not-found">>
      [] k = 11 -> <<"category">> \o ConfigGet(config, "category", <<"etc">>)
                   \o <<"not-found">>
      [] OTHER -> <<"step", ToString(k), "not-found">>

\* ------------------------------------------------------------ the run engine
MsgStart == <<"start">>
MsgNoData == <<"no-data">>
MsgTotal(n) == <<"total", ToString(n)>>
MsgStopped == <<"stopped">>
MsgRow(i) == <<"row", ToString(i)>>
MsgInfo(item) == <<"info", item.store_id, item.order_number>>
MsgSkip(missing) == <<"skip">> \o missing
MsgRetry(a) == <<"retry", ToString(a)>>
MsgFinalFail(reason) == <<"final-fail">> \o reason
MsgSheetWarn == <<"sheet-write-failed">>
MsgWait == <<"wait">>
MsgFatal == <<"fatal">>
MsgSeparator == <<"----">>
MsgSummary(st) == <<"summary", ToString(st.success), ToString(st.fail), ToString(st.skip)>>

\* the names of the required fields a record lacks
Missing(item) ==
    (IF item.store_id = "" THEN <<"store_id">> ELSE <<>>)
    \o (IF item.business_number = "" THEN <<"business_number">> ELSE <<>>)
    \o (IF item.order_number = "" THEN <<"order_number">> ELSE <<>>)

Log(st, message, level) == add_log(st, log_seq + 1, message, level)

Item(t) == t.items[t.i + 1]

\* a run start that keeps the stop flag it finds
RunInitKeepsStop(r) ==
    /\ MayStart(r)
    /\ LET st == [automation_state EXCEPT !.is_running = TRUE,
                     !.success = 0, !.fail = 0, !.skip = 0, !.logs = <<>>]
       IN  Go(r, add_log(st, 1, MsgStart, "info"),
              [run[r] EXCEPT !.pc = "init_state", !.stops_before = nstops],
              "bcast", "dead", 1)

\* run_automation, lines 410-419: reset Run State, log the start
RunInit(r) ==
    /\ MayStart(r)
    /\ LET st == [automation_state EXCEPT !.is_running = TRUE,
                     !.should_stop = FALSE, !.success = 0, !.fail = 0,
                     !.skip = 0, !.logs = <<>>]
       IN  Go(r, add_log(st, 1, MsgStart, "info"),
              [run[r] EXCEPT !.pc = "init_state", !.stops_before = nstops],
              "bcast", "dead", 1)

\* line 420
RunInitState(r) ==
    /\ At(r, "init_state")
    /\ Go(r, automation_state, [run[r] EXCEPT !.pc = "load"], "bcast", "dead", log_seq)

\* lines 424-444: read the sheet, slice the range, parse the settings
RunLoad(r) ==
    /\ At(r, "load")
    /\ \/ /\ "read" \in world.faults
          /\ Go(r, automation_state,
                [run[r] EXCEPT !.pc = "fatal", !.cause = "read"], "continue",
                "none", log_seq)
       \/ \E sh \in world.sheets :
            LET d == get_sheet_data(sh)
                t == run[r]
                sl == PySlice(d.items, t.start_row - 1,
                              IF t.end_row > 0 THEN t.end_row ELSE Len(d.items))
                st == [automation_state EXCEPT !.total_items = Len(sl)]
                dl == ConfigInt(d.config, "delay", DEFAULT_DELAY)
                mr == ConfigInt(d.config, "max_retry", DEFAULT_MAX_RETRY)
                t1 == [t EXCEPT !.items = sl, !.config = d.config]
            IN  IF d.items = <<>>
                THEN Go(r, Log(automation_state, MsgNoData, "warn"),
                        [t EXCEPT !.pc = "finally"], "bcast", "fatal", log_seq + 1)
                ELSE IF ~dl.ok \/ ~mr.ok
                THEN Go(r, st, [t1 EXCEPT !.pc = "fatal", !.cause = "settings"],
                        "continue", "none", log_seq)
                ELSE Go(r, Log(st, MsgTotal(Len(sl)), "info"),
                        [t1 EXCEPT !.pc = "state1", !.delay = dl.val,
                                   !.max_retry = mr.val],
                        "bcast", "fatal", log_seq + 1)

\* line 445
RunState1(r) ==
    /\ At(r, "state1")
    /\ Go(r, automation_state, [run[r] EXCEPT !.pc = "launch"], "bcast", "fatal", log_seq)

\* lines 448-459: start the browser
RunLaunch(r) ==
    /\ At(r, "launch")
    /\ \/ Go(r, automation_state, [run[r] EXCEPT !.pc = "loop", !.i = 0],
             "suspend", "none", log_seq)
       \/ /\ "launch" \in world.faults
          /\ Go(r, automation_state,
                [run[r] EXCEPT !.pc = "fatal", !.cause = "launch"], "suspend",
                "none", log_seq)

\* lines 461-471: the head of the record loop
RunLoop(r) ==
    /\ At(r, "loop")
    /\ LET t == run[r]
       IN  IF t.i >= Len(t.items)
           THEN Go(r, automation_state, [t EXCEPT !.pc = "close"], "continue",
                   "none", log_seq)
           ELSE IF automation_state.should_stop
           THEN Go(r, Log(automation_state, MsgStopped, "warn"),
                   [t EXCEPT !.pc = "close", !.halted = TRUE], "bcast",
                   "fatal_pw", log_seq + 1)
           ELSE Go(r, [automation_state EXCEPT !.current_item = t.i + 1],
                   [t EXCEPT !.pc = "rowlog", !.begun = @ + 1, !.tries = 0,
                             !.cls = "none", !.mm = FALSE, !.other_fails = 0,
                             !.last_reason = <<>>, !.wb = "none",
                             !.wb_status = <<>>,
                             !.prev_cls = t.cls, !.prev_states = t.states,
                             !.prev_paced = t.paced,
                             !.progress = 1, !.states = 0, !.paced = 0],
                   "bcast", "fatal_pw", log_seq)

\* line 473
RunRowLog(r) ==
    /\ At(r, "rowlog")
    /\ Go(r, Log(automation_state, MsgRow(run[r].i + 1), "info"),
          [run[r] EXCEPT !.pc = "infolog"], "bcast", "fatal_pw", log_seq + 1)

\* line 474
RunInfoLog(r) ==
    /\ At(r, "infolog")
    /\ Go(r, Log(automation_state, MsgInfo(Item(run[r])), "info"),
          [run[r] EXCEPT !.pc = "check"], "bcast", "fatal_pw", log_seq + 1)

\* lines 477-484 and 492-493: the eligibility check
RunCheck(r) ==
    /\ At(r, "check")
    /\ LET t == run[r]
           missing == Missing(Item(t))
       IN  IF missing # <<>>
           THEN Go(r, Log(automation_state, MsgSkip(missing), "warn"),
                   [t EXCEPT !.pc = "skip"], "bcast", "fatal_pw", log_seq + 1)
           ELSE Go(r, automation_state,
                   [t EXCEPT !.pc = "attempt", !.success = FALSE,
                             !.result_msg = <<>>, !.attempt = 1],
                   "continue", "none", log_seq)

\* lines 485-489: count the skip, write it back, broadcast, continue
RunSkip(r) ==
    /\ At(r, "skip")
    /\ LET t == run[r]
           st == [automation_state EXCEPT !.skip = @ + 1]
           t1 == [t EXCEPT !.cls = "skipped", !.classified = @ + 1,
                           !.wb_status = MsgSkip(Missing(Item(t)))]
       IN  \/ Go(r, st,
                 [t1 EXCEPT !.pc = "loop", !.i = @ + 1, !.wb = "ok",
                            !.states = @ + 1],
                 "bcast", "fatal_pw", log_seq)
           \/ /\ "write" \in world.faults
              /\ Go(r, st,
                    [t1 EXCEPT !.pc = "fatal", !.wb = "failed", !.cause = "write"],
                    "suspend", "none", log_seq)

\* lines 495-498: the head of the attempt loop
RunAttempt(r) ==
    /\ At(r, "attempt")
    /\ LET t == run[r]
       IN  IF t.attempt > t.max_retry
           THEN Go(r, automation_state, [t EXCEPT !.pc = "classify"], "continue",
                   "none", log_seq)
           ELSE IF t.attempt > 1
           THEN Go(r, Log(automation_state, MsgRetry(t.attempt), "info"),
                   [t EXCEPT !.pc = "sleep_retry"], "bcast", "fatal_pw", log_seq + 1)
           ELSE Go(r, automation_state, [t EXCEPT !.pc = "process"], "continue",
                   "none", log_seq)

\* line 498: asyncio.sleep(delay)
RunSleepRetry(r) ==
    /\ At(r, "sleep_retry")
    /\ Go(r, automation_state, [run[r] EXCEPT !.pc = "process"], "suspend",
          "none", log_seq)

\* line 500 into process_single_item, lines 187-236: int() of the timeout
\* setting, outside the protocol's try, then the log of step 1
RunProcess(r) ==
    /\ At(r, "process")
    /\ LET t == [run[r] EXCEPT !.tries = @ + 1]
       IN  IF ~ConfigInt(t.config, "timeout", DEFAULT_TIMEOUT).ok
           THEN Go(r, automation_state,
                   [t EXCEPT !.pc = "fatal", !.cause = "timeout-setting"],
                   "suspend", "none", log_seq)
           ELSE \E s \in world.surfaces :
                Go(r, Log(automation_state, MsgStep(1), "info"),
                   [t EXCEPT !.pc = "p_act", !.step = 1, !.surface = s,
                             !.done = <<>>],
                   "bcast", "p_error", log_seq + 1)

\* process_single_item, the action of step t.step (an await on the remote
\* surface), and what the run loop does with the result (lines 501-506)
ProtocolAct(r) ==
    /\ At(r, "p_act")
    /\ LET t == [run[r] EXCEPT !.done = Append(@, run[r].step)]
           k == t.step
           reason == FailReason(t.surface, k, t.config)
       IN  IF StepFails(t.surface, k)
           THEN Go(r, automation_state,
                   [t EXCEPT !.pc = "fail_log", !.result_msg = reason,
                             !.last_reason = reason,
                             !.mm = @ \/ Contains(reason, Bulilchi),
                             !.other_fails = IF reason = MsgMismatch THEN @ ELSE @ + 1],
                   "suspend", "none", log_seq)
           ELSE IF k < LAST_STEP
           THEN Go(r, automation_state, [t EXCEPT !.pc = "p_log", !.step = k + 1],
                   "suspend", "none", log_seq)
           ELSE Go(r, automation_state,
                   [t EXCEPT !.pc = "classify", !.success = TRUE,
                             !.result_msg = MsgSubmitted],
                   "suspend", "none", log_seq)

\* process_single_item, the log line that opens step t.step
ProtocolLog(r) ==
    /\ At(r, "p_log")
    /\ Go(r, Log(automation_state, MsgStep(run[r].step), "info"),
          [run[r] EXCEPT !.pc = "p_act"], "bcast", "p_error", log_seq + 1)

\* process_single_item, lines 324-325: an exception inside the protocol's try
ProtocolError(r) ==
    /\ At(r, "p_error")
    /\ LET reason == MsgError(<<"ValueError">>)
       IN  Go(r, automation_state,
              [run[r] EXCEPT !.pc = "fail_log", !.result_msg = reason,
                             !.last_reason = reason, !.other_fails = @ + 1],
              "continue", "none", log_seq)

\* line 507
RunFailLog(r) ==
    /\ At(r, "fail_log")
    /\ Go(r, Log(automation_state, run[r].result_msg, "error"),
          [run[r] EXCEPT !.pc = "after_fail"], "bcast", "fatal_pw", log_seq + 1)

\* the run loop's test `"불일치" in msg`
IsMismatch(msg) == Contains(msg, Bulilchi)

\* lines 508-509, and the next turn of the attempt loop
RunAfterFail(r) ==
    /\ At(r, "after_fail")
    /\ LET t == run[r]
       IN  IF IsMismatch(t.result_msg)
           THEN Go(r, automation_state, [t EXCEPT !.pc = "classify"], "continue",
                   "none", log_seq)
           ELSE Go(r, automation_state,
                   [t EXCEPT !.pc = "attempt", !.attempt = @ + 1], "continue",
                   "none", log_seq)

\* lines 511-516
RunClassify(r) ==
    /\ At(r, "classify")
    /\ LET t == run[r]
       IN  IF t.success
           THEN Go(r, Log([automation_state EXCEPT !.success = @ + 1],
                          MsgSubmitted, "success"),
                   [t EXCEPT !.pc = "write", !.cls = "succeeded",
                             !.classified = @ + 1],
                   "bcast", "fatal_pw", log_seq + 1)
           ELSE Go(r, Log([automation_state EXCEPT !.fail = @ + 1],
                          MsgFinalFail(t.result_msg), "error"),
                   [t EXCEPT !.pc = "write", !.cls = "exhausted",
                             !.classified = @ + 1],
                   "bcast", "fatal_pw", log_seq + 1)

\* lines 519-525: the guarded write-back
RunWrite(r) ==
    /\ At(r, "write")
    /\ LET t == [run[r] EXCEPT !.pc = "state2", !.wb_status = run[r].result_msg]
       IN  \/ Go(r, automation_state, [t EXCEPT !.wb = "ok"], "continue", "none",
                 log_seq)
           \/ /\ "write" \in world.faults
              /\ Go(r, Log(automation_state, MsgSheetWarn, "warn"),
                    [t EXCEPT !.wb = "failed"], "bcast", "fatal_pw", log_seq + 1)

\* an engine that broadcasts no state event after an attempted record
RunState2Silent(r) ==
    /\ At(r, "state2")
    /\ Go(r, automation_state, [run[r] EXCEPT !.pc = "pace"], "continue", "none",
          log_seq)

\* line 527
RunState2(r) ==
    /\ At(r, "state2")
    /\ Go(r, automation_state, [run[r] EXCEPT !.pc = "pace", !.states = @ + 1],
          "bcast", "fatal_pw", log_seq)

\* an engine that paces after every attempted record
RunPaceAlways(r) ==
    /\ At(r, "pace")
    /\ Go(r, Log(automation_state, MsgWait, "info"),
          [run[r] EXCEPT !.pc = "sleep_pace"], "bcast", "fatal_pw", log_seq + 1)

\* lines 530-532
RunPace(r) ==
    /\ At(r, "pace")
    /\ LET t == run[r]
       IN  IF t.i < Len(t.items) - 1 /\ ~automation_state.should_stop
           THEN Go(r, Log(automation_state, MsgWait, "info"),
                   [t EXCEPT !.pc = "sleep_pace"], "bcast", "fatal_pw", log_seq + 1)
           ELSE Go(r, automation_state, [t EXCEPT !.pc = "loop", !.i = @ + 1],
                   "continue", "none", log_seq)

\* line 533
RunSleepPace(r) ==
    /\ At(r, "sleep_pace")
    /\ Go(r, automation_state,
          [run[r] EXCEPT !.pc = "loop", !.i = @ + 1, !.paced = @ + 1],
          "suspend", "none", log_seq)

\* line 535: browser.close()
RunClose(r) ==
    /\ At(r, "close")
    /\ \/ Go(r, automation_state, [run[r] EXCEPT !.pc = "finally"], "suspend",
             "none", log_seq)
       \/ /\ "close" \in world.faults
          /\ Go(r, automation_state,
                [run[r] EXCEPT !.pc = "fatal", !.cause = "close"], "suspend",
                "none", log_seq)

\* lines 537-538: except Exception
RunFatal(r) ==
    /\ At(r, "fatal")
    /\ Go(r, Log(automation_state, MsgFatal, "error"),
          [run[r] EXCEPT !.pc = "finally"], "bcast", "finally", log_seq + 1)

\* lines 539-541: finally
RunFinally(r) ==
    /\ At(r, "finally")
    /\ Go(r, Log([automation_state EXCEPT !.is_running = FALSE], MsgSeparator, "info"),
          [run[r] EXCEPT !.pc = "summary", !.cleared = TRUE], "bcast", "dead",
          log_seq + 1)

\* lines 542-544
RunSummary(r) ==
    /\ At(r, "summary")
    /\ Go(r, Log(automation_state, MsgSummary(automation_state), "info"),
          [run[r] EXCEPT !.pc = "state3"], "bcast", "dead", log_seq + 1)

\* line 545
RunState3(r) ==
    /\ At(r, "state3")
    /\ Go(r, automation_state, [run[r] EXCEPT !.pc = "complete"], "bcast", "dead",
          log_seq)

\* lines 546-550: broadcast("complete", tallies); the task ends, with the
\* exception of the except clause's add_log if there was one
RunComplete(r) ==
    /\ At(r, "complete")
    /\ Go(r, automation_state,
          [run[r] EXCEPT !.pc = IF run[r].raising THEN "dead" ELSE "done",
                         !.completes = @ + 1,
                         !.tally = Counters(automation_state)],
          "bcast", "dead", log_seq)

EngineStep(r) ==
    \/ RunInit(r) \/ RunInitState(r) \/ RunLoad(r) \/ RunState1(r)
    \/ RunLaunch(r) \/ RunLoop(r) \/ RunRowLog(r) \/ RunInfoLog(r)
    \/ RunCheck(r) \/ RunSkip(r) \/ RunAttempt(r) \/ RunSleepRetry(r)
    \/ RunProcess(r) \/ ProtocolAct(r) \/ ProtocolLog(r)
    \/ RunFailLog(r) \/ RunAfterFail(r) \/ RunClassify(r) \/ RunWrite(r)
    \/ RunState2(r) \/ RunPace(r) \/ RunSleepPace(r) \/ RunClose(r)
    \/ RunFatal(r) \/ RunFinally(r) \/ RunSummary(r) \/ RunState3(r)
    \/ RunComplete(r)

RunStep(r) == EngineStep(r) \/ ProtocolError(r)

\* ------------------------------------------------------------ environments
AllSheets(rows, configs) ==
    {[rows |-> rs, config |-> c] : rs \in rows, c \in configs}

\* A remote surface: the mandatory step whose action it refuses (0: none)
\* and how, whether the marker text that step looks for is visible, and
\* whether the consent button of step 13 can be clicked.
OkSurface == [fail_at |-> 0, how |-> "none", marker |-> FALSE, consent |-> TRUE]
MismatchSurface == [fail_at |-> 9, how |-> "absent", marker |-> TRUE, consent |-> TRUE]
CategorySurface == [fail_at |-> 11, how |-> "absent", marker |-> FALSE, consent |-> TRUE]
TimeoutSurface == [fail_at |-> 1, how |-> "timeout", marker |-> FALSE, consent |-> TRUE]

\* every surface
Surfaces ==
    {[fail_at |-> k, how |-> h, marker |-> m, consent |-> c] :
        k \in 0..LAST_STEP, h \in {"absent", "timeout"}, m \in BOOLEAN,
        c \in BOOLEAN}

\* the data rows a sheet of this model may hold: up to n rows
RECURSIVE RowSeqs(_)
RowSeqs(n) ==
    IF n = 0 THEN {<<>>}
    ELSE RowSeqs(n - 1)
         \cup {Append(rs, row) : rs \in {q \in RowSeqs(n - 1) : Len(q) = n - 1},
                                 row \in {FullRow, NoBizRow, BlankStoreRow}}

\* one run at a time, no observer: every sheet, setting, surface and fault
EngineWorld ==
    [runs |-> 1, stops |-> MaxStops, rejects |-> MaxRejects, observers |-> 0,
     sheets |-> AllSheets(RowSeqs(MaxItems),
                          {Config2, Config1, ConfigBadTimeout, ConfigBadRetry,
                           ConfigCategory}),
     requests |-> {<<1, 0>>, <<2, 0>>},
     surfaces |-> {OkSurface, MismatchSurface, CategorySurface, TimeoutSurface},
     faults |-> {"read", "launch", "close", "write"},
     reads |-> 0]

\* one run and the observers
HubWorld ==
    [runs |-> 1, stops |-> MaxStops, rejects |-> MaxRejects, observers |-> MaxObs,
     sheets |-> AllSheets({<<>>, <<NoBizRow>>, <<FullRow>>}, {Config1}),
     requests |-> {<<1, 0>>},
     surfaces |-> {OkSurface, MismatchSurface},
     faults |-> {},
     reads |-> 0]

\* start requests that race, with no stop request and no observer
RaceWorld ==
    [runs |-> MaxRuns, stops |-> 0, rejects |-> MaxRejects, observers |-> 0,
     sheets |-> AllSheets({<<>>, <<NoBizRow>>, <<FullRow>>}, {Config1}),
     requests |-> {<<1, 0>>},
     surfaces |-> {TimeoutSurface},
     faults |-> {},
     reads |-> 0]

\* stop requests that fill the log buffer past LOG_CAP, around one run
\* start on an empty sheet
LogWorld ==
    [runs |-> 1, stops |-> MaxAppends, rejects |-> 0, observers |-> 0,
     sheets |-> AllSheets({<<>>}, {Config1}),
     requests |-> {<<1, 0>>},
     surfaces |-> {},
     faults |-> {},
     reads |-> 0]

\* several observers around the broadcasts of the stop handler and of one
\* run on an empty sheet
PassWorld ==
    [runs |-> 1, stops |-> MaxStops, rejects |-> 0, observers |-> MaxPassObs,
     sheets |-> AllSheets({<<>>}, {Config1}),
     requests |-> {<<1, 0>>},
     surfaces |-> {},
     faults |-> {},
     reads |-> 0]

\* one eligible record, one attempt, on every surface
ProtocolWorld ==
    [runs |-> 1, stops |-> 0, rejects |-> 0, observers |-> 0,
     sheets |-> AllSheets({<<FullRow>>}, {Config1}),
     requests |-> {<<1, 0>>},
     surfaces |-> Surfaces,
     faults |-> {},
     reads |-> 0]

\* one run over every sheet of skipped and eligible records, with retries,
\* stop requests and failing write-backs
RecordWorld ==
    [runs |-> 1, stops |-> MaxStops, rejects |-> 0, observers |-> 0,
     sheets |-> AllSheets(RowSeqs(MaxItems), {Config2}),
     requests |-> {<<1, 0>>},
     surfaces |-> {OkSurface, TimeoutSurface},
     faults |-> {"write"},
     reads |-> 0]

\* every control-surface operation and an observer around one run
SurfaceWorld ==
    [runs |-> 1, stops |-> MaxStops, rejects |-> MaxRejects, observers |-> MaxObs,
     sheets |-> AllSheets({<<>>, <<NoBizRow>>, <<FullRow>>}, {Config1}),
     requests |-> {<<1, 0>>},
     surfaces |-> {OkSurface},
     faults |-> {},
     reads |-> MaxReads]

\* successive runs over sheets of different lengths, with stop requests
\* before, during and after them
SequelWorld ==
    [runs |-> MaxRuns, stops |-> MaxStops, rejects |-> 0, observers |-> 0,
     sheets |-> AllSheets({<<>>, <<NoBizRow>>, <<NoBizRow, NoBizRow>>}, {Config1}),
     requests |-> {<<1, 0>>},
     surfaces |-> {},
     faults |-> {"launch"},
     reads |-> 0]

\* one run under every retry budget: two attempts, none, fewer than none
RetryWorld ==
    [runs |-> 1, stops |-> MaxStops, rejects |-> 0, observers |-> 0,
     sheets |-> AllSheets(RowSeqs(MaxItems), {Config2, ConfigZero, ConfigNegative}),
     requests |-> {<<1, 0>>},
     surfaces |-> {OkSurface, TimeoutSurface},
     faults |-> {"write"},
     reads |-> 0]

Worlds == {EngineWorld, HubWorld, RaceWorld}

InitIn(w) ==
    /\ automation_state = InitialState
    /\ connected_clients = <<>>
    /\ obs = [o \in Observers |-> "none"]
    /\ run = [r \in RunIds |-> FreshTask]
    /\ bc = [t \in Tasks |-> IdleBc]
    /\ cur = {}
    /\ ahead = [r \in RunIds |-> {}]
    /\ world = w
    /\ nstops = 0
    /\ nrejects = 0
    /\ log_seq = 0
    /\ hub = IdleHub
    /\ nreads = [status |-> 0, connect |-> 0]

Init == \E w \in Worlds : InitIn(w)

InitEngine == InitIn(EngineWorld)
InitLog == InitIn(LogWorld)
InitRace == InitIn(RaceWorld)
InitPass == InitIn(PassWorld)
InitProtocol == InitIn(ProtocolWorld)
InitRecord == InitIn(RecordWorld)
InitSurface == InitIn(SurfaceWorld)
InitSequel == InitIn(SequelWorld)
InitRetry == InitIn(RetryWorld)

Next ==
    \/ StartAutomation
    \/ StopAutomation
    \/ \E o \in Observers : WsConnect(o)
    \/ \E o \in Observers : ClientClose(o)
    \/ \E o \in Observers : WsDisconnect(o)
    \/ \E t \in Tasks : BcastResume(t)
    \/ \E r \in RunIds : RunStep(r)

\* the control surface and the run engine, without observers
NextEngine ==
    \/ StartAutomation
    \/ StopAutomation
    \/ \E r \in RunIds : EngineStep(r)

\* the steps that append to the log buffer when the sheet holds no record
NextLog ==
    \/ StartAutomation
    \/ StopAutomation
    \/ \E r \in RunIds :
         \/ RunInit(r) \/ RunInitState(r) \/ RunLoad(r) \/ RunFinally(r)
         \/ RunSummary(r) \/ RunState3(r) \/ RunComplete(r)

\* the steps racing runs take on sheets of at most one record whose only
\* attempt times out at step 1
NextRace ==
    \/ StartAutomation
    \/ \E r \in RunIds :
         \/ RunInit(r) \/ RunInitState(r) \/ RunLoad(r) \/ RunState1(r)
         \/ RunLaunch(r) \/ RunLoop(r) \/ RunRowLog(r) \/ RunInfoLog(r)
         \/ RunCheck(r) \/ RunSkip(r) \/ RunAttempt(r) \/ RunProcess(r)
         \/ ProtocolAct(r) \/ RunFailLog(r) \/ RunAfterFail(r)
         \/ RunClassify(r) \/ RunWrite(r) \/ RunState2(r) \/ RunPace(r)
         \/ RunClose(r) \/ RunFinally(r) \/ RunSummary(r) \/ RunState3(r)
         \/ RunComplete(r)

\* start and stop requests and the steps of runs whose records are all
\* skipped
NextSequel ==
    \/ StartAutomation
    \/ StopAutomation
    \/ \E r \in RunIds :
         \/ RunInit(r) \/ RunInitState(r) \/ RunLoad(r) \/ RunState1(r)
         \/ RunLaunch(r) \/ RunLoop(r) \/ RunRowLog(r) \/ RunInfoLog(r)
         \/ RunCheck(r) \/ RunSkip(r) \/ RunClose(r) \/ RunFatal(r)
         \/ RunFinally(r) \/ RunSummary(r) \/ RunState3(r) \/ RunComplete(r)

\* the observers, the stop handler and the steps of a run on an empty sheet
NextPass ==
    \/ StartAutomation
    \/ StopAutomation
    \/ \E o \in Observers : WsConnect(o)
    \/ \E o \in Observers : ClientClose(o)
    \/ \E o \in Observers : WsDisconnect(o)
    \/ \E t \in Tasks : BcastResume(t)
    \/ \E r \in RunIds :
         \/ RunInit(r) \/ RunInitState(r) \/ RunLoad(r) \/ RunFatal(r)
         \/ RunFinally(r) \/ RunSummary(r) \/ RunState3(r) \/ RunComplete(r)

\* every operation of the control surface, the observers and the run engine
\* over at most one record attempted once (no retry, no pacing sleep)
NextSurface ==
    \/ StartAutomation
    \/ StopAutomation
    \/ GetStatus
    \/ ConnectSheet
    \/ \E o \in Observers : WsConnect(o)
    \/ \E o \in Observers : ClientClose(o)
    \/ \E o \in Observers : WsDisconnect(o)
    \/ \E t \in Tasks : BcastResume(t)
    \/ \E r \in RunIds :
         \/ RunInit(r) \/ RunInitState(r) \/ RunLoad(r) \/ RunState1(r)
         \/ RunLaunch(r) \/ RunLoop(r) \/ RunRowLog(r) \/ RunInfoLog(r)
         \/ RunCheck(r) \/ RunSkip(r) \/ RunAttempt(r) \/ RunProcess(r)
         \/ ProtocolAct(r) \/ ProtocolLog(r) \/ ProtocolError(r)
         \/ RunFailLog(r) \/ RunAfterFail(r) \/ RunClassify(r)
         \/ RunWrite(r) \/ RunState2(r) \/ RunPace(r) \/ RunClose(r)
         \/ RunFatal(r) \/ RunFinally(r) \/ RunSummary(r) \/ RunState3(r)
         \/ RunComplete(r)

\* the steps of a run whose only record is eligible and attempted once
NextProtocol ==
    \/ StartAutomation
    \/ \E r \in RunIds :
         \/ RunInit(r) \/ RunInitState(r) \/ RunLoad(r) \/ RunState1(r)
         \/ RunLaunch(r) \/ RunLoop(r) \/ RunRowLog(r) \/ RunInfoLog(r)
         \/ RunCheck(r) \/ RunAttempt(r) \/ RunProcess(r) \/ ProtocolAct(r)
         \/ ProtocolLog(r) \/ RunFailLog(r) \/ RunAfterFail(r)
         \/ RunClassify(r) \/ RunWrite(r) \/ RunState2(r) \/ RunPace(r)
         \/ RunClose(r) \/ RunFinally(r) \/ RunSummary(r) \/ RunState3(r)
         \/ RunComplete(r)

Spec == Init /\ [][Next]_vars
SpecProtocol == InitProtocol /\ [][NextProtocol]_vars
SpecRecord == InitRecord /\ [][NextEngine]_vars
SpecSurface == InitSurface /\ [][NextSurface]_vars
SpecSequel == InitSequel /\ [][NextSequel]_vars
SpecRetry == InitRetry /\ [][NextEngine]_vars
SpecPass == InitPass /\ [][NextPass]_vars
SpecRace == InitRace /\ [][NextRace]_vars
SpecEngine == InitEngine /\ [][NextEngine]_vars
SpecLog == InitLog /\ [][NextLog]_vars

\* ================================================================ properties
\* the task has run its first step and has not ended
Live(pc) == pc \notin {"none", "created", "done", "dead"}

\* the record the task began last is no longer being worked on
Left(t) == t.begun >= 1 /\ ~InRecord(t.pc)

\* the record the task began last is classified and past its write-back
RecordDone(t) ==
    /\ t.begun >= 1
    /\ t.classified = t.begun
    /\ t.pc \in {"state2", "pace", "sleep_pace"} \/ ~InRecord(t.pc)

LastLog == automation_state.logs[Len(automation_state.logs)]

\* C1: at most one run is active at any time: two run_automation tasks
\* never coexist, whatever the interleaving of start requests, stop
\* requests and engine steps.
C1_SingleRun == Cardinality({r \in RunIds : Live(run[r].pc)}) <= 1

\* a step of the start handler: a rejection, or a task created
StartRequestStep ==
    \/ nrejects' # nrejects
    \/ \E r \in RunIds : run[r].pc = "none" /\ run'[r].pc # "none"

\* C2: a start request received while the running flag is true is rejected
\* and leaves every field of Run State unchanged (and creates no task).
C2_RejectedStartChangesNothing ==
    [][(automation_state.is_running /\ StartRequestStep)
          => /\ nrejects' = nrejects + 1
             /\ automation_state' = automation_state
             /\ run' = run]_vars

\* a start request was rejected in the middle of a run that has already
\* counted a record and logged
C2_Witness ==
    /\ nrejects >= 1
    /\ automation_state.is_running
    /\ automation_state.success + automation_state.fail + automation_state.skip >= 1
    /\ automation_state.logs # <<>>

\* C3: every run broadcasts `complete` exactly once, after the running flag
\* was set to false, with tallies equal to the counters of the final Run
\* State; a run task never ends without it.
C3_CompleteExactlyOnce ==
    \A r \in RunIds :
        /\ run[r].completes <= 1
        /\ run[r].completes = 1 => run[r].cleared
        /\ Ended(run[r].pc) => /\ run[r].completes = 1
                               /\ run[r].tally = run[r].final

\* C4: every record the loop begins ends skipped, succeeded or exhausted
\* with exactly one counter incremented: once the loop has left a record,
\* success + fail + skip equals the number of records begun.
C4_EveryRecordClassified ==
    \A r \in RunIds :
        Left(run[r]) =>
            /\ run[r].classified = run[r].begun
            /\ run[r].cls \in {"skipped", "succeeded", "exhausted"}
            /\ automation_state.success + automation_state.fail
                   + automation_state.skip = run[r].begun

\* C5: a record with an empty required field is never given to
\* process_single_item and is classified skipped (skip tally incremented)
\* by the time the loop leaves it.
C5_MissingFieldSkipped ==
    \A r \in RunIds :
        (run[r].begun >= 1 /\ Missing(run[r].items[run[r].begun]) # <<>>) =>
            /\ run[r].tries = 0
            /\ Left(run[r]) => run[r].cls = "skipped"

\* C6: after an attempt failed with a mismatch-classified reason no further
\* attempt is made on the record, and the record is classified exhausted
\* by the time the loop leaves it.
C6_MismatchStopsRetry ==
    \A r \in RunIds :
        run[r].mm =>
            /\ run[r].pc \notin {"attempt", "sleep_retry", "process", "p_act",
                                 "p_log", "p_error"}
            /\ Left(run[r]) => run[r].cls = "exhausted"

\* C7: when a stop is requested while record i is in progress, no record
\* after i begins, and record i has its terminal classification when the
\* loop leaves it.
C7_StopFinishesRecord ==
    \A r \in RunIds :
        run[r].stop_at > 0 =>
            /\ run[r].begun = run[r].stop_at
            /\ Left(run[r]) => run[r].classified = run[r].begun

\* C8: the log buffer never holds more than LOG_CAP entries, and it holds
\* the most recent min(n, LOG_CAP) of the n entries appended since the last
\* run start, in append order.
C8_LogKeepsMostRecent ==
    LET logs == automation_state.logs
    IN  /\ Len(logs) <= LOG_CAP
        /\ Len(logs) = Min(log_seq, LOG_CAP)
        /\ \A k \in 1..Len(logs) : logs[k].seq = log_seq - Len(logs) + k

\* entries were evicted, some of them appended by the run after its reset
C8_Witness ==
    /\ log_seq > LOG_CAP
    /\ Len(automation_state.logs) = LOG_CAP
    /\ automation_state.logs[1].seq = log_seq - LOG_CAP + 1
    /\ \E r \in RunIds : run[r].pc = "done"

\* C9: no record receives more attempts than the retry budget N; when
\* N >= 1 and every attempt on a record failed with a reason other than the
\* mismatch reason, exactly N attempts were made, the record is counted as
\* failed and the status written back is the last failure reason.
C9_ExhaustAfterBudget ==
    \A r \in RunIds :
        LET t == run[r]
        IN  /\ t.begun >= 1 => t.tries <= Max(t.max_retry, 0)
            /\ (RecordDone(t) /\ t.max_retry >= 1 /\ t.tries >= 1
                   /\ t.other_fails = t.tries) =>
                   /\ t.tries = t.max_retry
                   /\ t.cls = "exhausted"
                   /\ t.wb_status = t.last_reason

\* C10: a write-back is attempted for every classified record, a failed
\* write-back is logged as a warning, and no run is aborted by one.
C10_WriteFailureNeverAborts ==
    \A r \in RunIds :
        /\ run[r].cause # "write"
        /\ RecordDone(run[r]) => run[r].wb # "none"
        /\ (run[r].wb = "failed" /\ run[r].pc = "state2" /\ ~bc[r].active) =>
               (LastLog.message = MsgSheetWarn /\ LastLog.level = "warn")

\* C11: broadcast never raises to its caller, whatever the observers do
\* while the pass is suspended in a send.
C11_BroadcastNeverRaises == hub.raised = {}

\* C12: a malformed value of a numeric setting never aborts a run: no run
\* reaches its fatal handler because int() rejected a setting.
C12_MalformedSettingFallsBack ==
    \A r \in RunIds : run[r].cause \notin {"settings", "timeout-setting"}

\* C13: the running flag is false again once every run task has finished.
C13_NotStuckRunning ==
    (\A r \in RunIds : run[r].pc \in {"none", "done", "dead"})
        => ~automation_state.is_running

\* C14: a broadcast pass sends to every observer that is listed from its
\* beginning to its end and still connected: no live observer is skipped.
C14_NoLiveObserverSkipped == hub.skipped = {}

\* C15: each observer receives the messages in the order of the broadcast
\* calls: no pass sends to an observer after a later pass has.
C15_PerObserverCallOrder == hub.disorder = {}

\* the protocol of the current attempt has returned (it was entered, is not
\* at one of its steps, and did not raise at line 187)
Returned(t) ==
    /\ t.tries >= 1
    /\ t.pc \notin {"p_act", "p_log", "p_error"}
    /\ t.cause # "timeout-setting"

\* C16: the protocol performs its steps in the order 1, 2, ..; it returns
\* a failure at the first mandatory step the surface refuses, performing no
\* later step; it returns success only after all 13 steps, with step 13
\* passed by the final action or by the visible completion marker; and a
\* failing consent click alone never makes it fail.
C16_ProtocolStepsInOrder ==
    \A r \in RunIds :
        LET t == run[r]
            s == t.surface
            passes == s.fail_at = 0 \/ (s.fail_at = LAST_STEP /\ s.marker)
        IN  /\ Len(t.done) <= LAST_STEP
            /\ \A j \in 1..Len(t.done) : t.done[j] = j
            /\ ~passes => Len(t.done) <= s.fail_at
            /\ (Returned(t) /\ t.success) => (passes /\ Len(t.done) = LAST_STEP)
            /\ (Returned(t) /\ ~t.success) =>
                   (~passes /\ Len(t.done) = s.fail_at
                    /\ t.result_msg = FailReason(s, s.fail_at, t.config))

\* the protocol succeeded on a surface without the final button and without
\* a clickable consent button, the completion marker being visible
C16_Witness ==
    \E r \in RunIds :
        /\ Returned(run[r]) /\ run[r].success
        /\ run[r].surface.fail_at = LAST_STEP
        /\ run[r].surface.marker /\ ~run[r].surface.consent
        /\ Len(run[r].done) = LAST_STEP

\* C17: the run engine classifies a failure as a mismatch exactly when it
\* is the failure of step 9 with the mismatch marker visible: a failure of
\* any other step is never taken for a mismatch.
C17_MismatchOnlyAtStep9 ==
    \A r \in RunIds :
        LET t == run[r]
            atStep9 == /\ t.surface.fail_at = 9 /\ t.surface.marker
                       /\ Len(t.done) = 9
        IN  /\ t.mm => atStep9
            /\ (t.pc = "after_fail" /\ atStep9) => IsMismatch(t.result_msg)

\* C18 (as stated): a progress event is broadcast before each attempt on a
\* record, retries included: a record has had at least as many progress
\* events as attempts.
C18_ProgressBeforeEachAttempt ==
    \A r \in RunIds : run[r].tries <= run[r].progress

\* C18 (amended): one progress event is broadcast per record, when the
\* record begins and so before its first attempt, and none before a retry;
\* a state event is broadcast after every processed record before the next
\* record begins.
C18_ProgressOncePerRecord ==
    \A r \in RunIds :
        LET t == run[r]
        IN  /\ t.begun >= 1 => t.progress = 1
            /\ t.tries >= 1 => t.progress = 1
            /\ t.begun >= 2 => t.prev_states = 1
            /\ (t.pc = "loop" /\ t.begun >= 1) => t.states = 1

\* the second record is at its second attempt: one progress event for it,
\* one state event after the first record
C18_Witness ==
    \E r \in RunIds :
        /\ run[r].begun = 2 /\ run[r].tries = 2
        /\ run[r].progress = 1 /\ run[r].prev_states = 1

\* C19 (as stated): between every two consecutively processed records,
\* whatever the outcome of the first, there is one pacing sleep.
C19_PacingBetweenAllRecords ==
    \A r \in RunIds : run[r].begun >= 2 => run[r].prev_paced = 1

\* C19 (amended): a record begun after an attempted record (succeeded or
\* exhausted) was preceded by exactly one pacing sleep, one begun after a
\* skipped record by none; there is no pacing sleep after the last record,
\* nor after a record during which a stop was requested.
C19_PacingAfterAttemptedRecords ==
    \A r \in RunIds :
        LET t == run[r]
        IN  /\ t.paced <= 1
            /\ t.begun >= 2 =>
                   /\ t.prev_cls \in {"skipped", "succeeded", "exhausted"}
                   /\ t.prev_cls = "skipped" => t.prev_paced = 0
                   /\ t.prev_cls # "skipped" => t.prev_paced = 1
            /\ t.cls = "skipped" => t.paced = 0
            /\ (t.begun >= 1 /\ t.begun = Len(t.items)) => t.paced = 0
            /\ (t.begun >= 1 /\ t.stop_at = t.begun) => t.paced = 0

\* a record has begun right after a skipped one, without a pacing sleep
C19_Witness ==
    \E r \in RunIds :
        /\ run[r].begun = 2 /\ run[r].prev_cls = "skipped"
        /\ run[r].prev_paced = 0 /\ run[r].tries >= 1

\* a step of a control-surface operation other than a stop request: a
\* rejected or accepted start, a status query, a sheet connect; or of an
\* observer subscribing, losing its connection or unsubscribing
QuietStep ==
    \/ StartRequestStep
    \/ nreads' # nreads
    \/ obs' # obs

StopRequestStep == nstops' # nstops

\* C20 (as stated): no control-surface operation and no observer
\* subscribe/unsubscribe changes the log buffer or the success/fail/skip
\* counters, whether or not a run is active.
C20_OnlyEngineMutatesLog ==
    [][(QuietStep \/ StopRequestStep)
          => /\ automation_state'.logs = automation_state.logs
             /\ Counters(automation_state') = Counters(automation_state)]_vars

\* C20 (amended): a start request, a status query, a sheet connect and an
\* observer subscribing or unsubscribing change neither the log buffer nor
\* the counters; a stop request leaves the counters unchanged and appends
\* exactly one warn entry to the log buffer, whether or not a run is active.
C20_OnlyStopAppendsLog ==
    [][/\ QuietStep => /\ automation_state'.logs = automation_state.logs
                       /\ Counters(automation_state') = Counters(automation_state)
       /\ StopRequestStep =>
             /\ Counters(automation_state') = Counters(automation_state)
             /\ \E e \in {automation_state'.logs[Len(automation_state'.logs)]} :
                   /\ e.level = "warn"
                   /\ e.message = MsgStopRequested
                   /\ automation_state'.logs =
                         KeepRecent(Append(automation_state.logs, e))]_vars

\* during a run that has counted a record, after a status query, a sheet
\* connect, a rejected start and a subscription, a stop request has just
\* appended its entry
C20_Witness ==
    /\ automation_state.is_running
    /\ automation_state.success + automation_state.fail + automation_state.skip >= 1
    /\ nreads.status >= 1 /\ nreads.connect >= 1 /\ nrejects >= 1
    /\ \E o \in Observers : obs[o] # "none"
    /\ nstops >= 1
    /\ Len(automation_state.logs) >= 2
    /\ LastLog.message = MsgStopRequested /\ LastLog.level = "warn"

\* the first step of a run task: the reset of lines 410-417 and the start log
RunStartStep == \E r \in RunIds : run[r].pc = "created" /\ run'[r].pc # "created"

\* C21: the stop flag becomes true only in a stop request and false only in
\* the reset at a run's start; that reset leaves the counters zero, the
\* log holding nothing but the start entry and the stop flag false, so a
\* run is halted at the loop head only by a stop request made after its
\* start; the end of a run (normal, stopped or faulted) leaves the flag as
\* it is.
C21_StopFlagLifecycle ==
    [][/\ (~automation_state.should_stop /\ automation_state'.should_stop)
            => StopRequestStep
       /\ (automation_state.should_stop /\ ~automation_state'.should_stop)
            => RunStartStep
       /\ StopRequestStep => automation_state'.should_stop
       /\ RunStartStep =>
             /\ ~automation_state'.should_stop
             /\ Counters(automation_state') = <<0, 0, 0>>
             /\ Len(automation_state'.logs) = 1
             /\ automation_state'.logs[1].message = MsgStart
       /\ \A r \in RunIds :
             /\ run'[r].halted => nstops' > run'[r].stops_before
             /\ (Live(run[r].pc) /\ run[r].pc \in {"close", "fatal", "finally",
                     "summary", "state3", "complete"} /\ ~StopRequestStep
                     /\ ~RunStartStep)
                  => automation_state'.should_stop = automation_state.should_stop
      ]_vars

\* a stop was requested before the run's reset, and the run went through
\* both records of its sheet to its end without being halted
C21_Witness ==
    \E r \in RunIds :
        /\ run[r].stops_before >= 1
        /\ run[r].pc = "done" /\ ~run[r].halted
        /\ run[r].begun = 2 /\ run[r].classified = 2
        /\ ~automation_state.should_stop

\* C22: in every reachable state, across successive runs that never
\* overlap too (each started after the one before it ended),
\* success + fail + skip <= current index <= total count.
C22_CountersWithinIndex ==
    (\A r \in RunIds : run[r].alone) =>
        /\ automation_state.success + automation_state.fail
              + automation_state.skip <= automation_state.current_item
        /\ automation_state.current_item <= automation_state.total_items

\* C23: a record is classified exhausted (counted in the fail tally) only
\* after at least one submission attempt on it was made and failed,
\* whatever the configured retry budget, and the status written back for
\* it is then a non-empty failure reason.
C23_FailOnlyAfterAttempt ==
    \A r \in RunIds :
        LET t == run[r]
        IN  t.cls = "exhausted" =>
                /\ t.tries >= 1
                /\ t.last_reason # <<>>
                /\ t.wb # "none" => t.wb_status # <<>>
====
